---- MODULE Spec2Model ----
(***************************************************************************)
(* Model of the endless-runner session: App (startGame, handleGameOver),   *)
(* the narrative service (getGameSummary) and the SceneController          *)
(* (moveLane, key handler, the per-frame game loop).                       *)
(*                                                                         *)
(* Numbers: depths (z), speed and score are fixed-point integers in        *)
(* thousandths (z = -120 is -120000, speed 10 is 10000, 0.002 is 2).       *)
(* A frame's delta is a rational number of seconds [num, den].             *)
(* A value of Math.random() is modelled by its first decimal digit 0..9.   *)
(* State updates of a handler are applied atomically with the handler.     *)
(***************************************************************************)
EXTENDS Integers, Sequences, FiniteSets, TLC

VARIABLES
    gameState,       \* App: useState<GameState>
    summary,         \* App: useState<string>
    loadingSummary,  \* App: useState(false)
    lane,            \* SceneController: useState<Lane>
    objects,         \* SceneController: useState<GameObject[]>
    pending,         \* getGameSummary calls awaiting the service
    nextId,          \* next fresh object id (ids are fresh random strings)
    frames,          \* number of frame callbacks run so far
    delta,           \* delta handed to the most recent frame callback
    session,         \* number of startGame calls so far
    lastMove,        \* most recent moveLane call: its direction (0: none
                     \* yet), the lane it was made from and whether it
                     \* called playSound('move')
    summaryGen       \* session whose request wrote summary (0: none)

vars == <<gameState, summary, loadingSummary, lane, objects, pending,
          nextId, frames, delta, session, lastMove, summaryGen>>

----------------------------------------------------------------------------
\* Bounds of the model

MaxFrames == 3
MaxSessions == 2

\* Frame durations offered to the game loop, in seconds
Deltas == {[num |-> 0, den |-> 1], [num |-> 6, den |-> 1]}

\* Values Math.random() takes at each of its uses (first decimal digit)
LaneRand == {0, 4, 8}
DecorationRand == {0, 8}
SideRand == {8}
VariantRand == {0}
HeartRand == {0, 8}
LabelRand == {0, 6}

Rand ==
    [lane |-> LaneRand, decoration |-> DecorationRand, side |-> SideRand,
     variant |-> VariantRand, heart |-> HeartRand, label |-> LabelRand]

\* Texts the narrative service answers with ("" models a missing text)
ServiceTexts == {"", "Love is strong."}

----------------------------------------------------------------------------
\* Program constants

SPEED_MULTIPLIER == 2
PLAYER_Z == 0
SPAWN_DISTANCE == -120000
REMOVE_DISTANCE == 10000
HIT_RADIUS == 800
SPAWN_GAP == 20000
SCORE_FACTOR == 5
SPEED_STEP == 2
INITIAL_SPEED == 10000

ObstacleType ==
    <<"Family Problems", "Toxic Bestie", "Society", "Ego", "Long Distance">>

ServiceFallback == "Love is a journey, not a destination. Try again!"
EmptyFallback == "Better luck next time!"

InitialGameState ==
    [isPlaying |-> FALSE, isGameOver |-> FALSE, score |-> 0, hearts |-> 0,
     speed |-> INITIAL_SPEED, obstaclesHit |-> <<>>]

\* startGame written as an update of the previous state
StartedKeepsCounters ==
    [gameState EXCEPT !.isPlaying = TRUE, !.isGameOver = FALSE]

StartedGameState ==
    [isPlaying |-> TRUE, isGameOver |-> FALSE, score |-> 0, hearts |-> 0,
     speed |-> INITIAL_SPEED, obstaclesHit |-> <<>>]

----------------------------------------------------------------------------
\* Helpers

Abs(x) == IF x < 0 THEN -x ELSE x

SetMin(S) == CHOOSE x \in S : \A y \in S : x <= y

SetMax(S) == CHOOSE x \in S : \A y \in S : x >= y

Clamp(x) == SetMax({-1, SetMin({1, x})})

----------------------------------------------------------------------------
\* App

Init ==
    /\ gameState = InitialGameState
    /\ summary = ""
    /\ loadingSummary = FALSE
    /\ lane = 0
    /\ objects = <<>>
    /\ pending = {}
    /\ nextId = 1
    /\ frames = 0
    /\ delta = [num |-> 0, den |-> 1]
    /\ session = 0
    /\ lastMove = [dir |-> 0, from |-> 0, sound |-> FALSE]
    /\ summaryGen = 0

\* The two buttons that call startGame are on the start screen and on the
\* game-over screen.
startGame ==
    /\ (~gameState.isPlaying /\ ~gameState.isGameOver) \/ gameState.isGameOver
    /\ session < MaxSessions
    /\ gameState' = StartedGameState
    /\ summary' = ""
    /\ session' = session + 1
    /\ summaryGen' = 0
    /\ UNCHANGED <<loadingSummary, lane, objects, pending, nextId, frames,
                   delta, lastMove>>

\* getGameSummary without its try/catch: a failed call yields no text
getGameSummaryNoCatch(outcome) == outcome.text

\* getGameSummary: the value the promise resolves to
getGameSummary(outcome) ==
    IF outcome.failed THEN ServiceFallback ELSE outcome.text

ServiceOutcomes ==
    {[failed |-> TRUE, text |-> ""]}
        \cup {[failed |-> FALSE, text |-> t] : t \in ServiceTexts}

\* handleGameOver without the || "Better luck next time!" of setSummary
summaryArrivesNoFallback(req, outcome) ==
    /\ req \in pending
    /\ pending' = pending \ {req}
    /\ summary' = getGameSummary(outcome)
    /\ loadingSummary' = FALSE
    /\ summaryGen' = req.gen
    /\ UNCHANGED <<gameState, lane, objects, nextId, frames, delta,
                   session, lastMove>>

\* handleGameOver with its setGameState placed after the await
summaryArrivesEndsGame(req, outcome) ==
    LET result == getGameSummary(outcome)
    IN  /\ req \in pending
        /\ pending' = pending \ {req}
        /\ gameState' = [gameState EXCEPT !.isGameOver = TRUE,
                                           !.isPlaying = FALSE]
        /\ summary' = IF result # "" THEN result ELSE EmptyFallback
        /\ loadingSummary' = FALSE
        /\ summaryGen' = req.gen
        /\ UNCHANGED <<lane, objects, nextId, frames, delta, session,
                       lastMove>>

\* handleGameOver, after the await: the response of request req arrives
summaryArrives(req, outcome) ==
    LET result == getGameSummary(outcome)
    IN  /\ req \in pending
        /\ pending' = pending \ {req}
        /\ summary' = IF result # "" THEN result ELSE EmptyFallback
        /\ loadingSummary' = FALSE
        /\ summaryGen' = req.gen
        /\ UNCHANGED <<gameState, lane, objects, nextId, frames, delta,
                       session, lastMove>>

----------------------------------------------------------------------------
\* SceneController: lane changes

\* moveLane without the clamp
moveLaneUnclamped(prev, dir) == prev + dir

moveLaneNext(prev, dir) == Clamp(prev + dir)

\* moveLane calling playSound('move') on every request
moveSoundAlways(prev, next) == TRUE

\* moveLane: if (next !== prev) playSound('move')
moveSound(prev, next) == next # prev

\* handleKeyDown / handleTouchEnd: ignored unless playing
handleKeyDown(dir) ==
    /\ IF ~gameState.isPlaying
         THEN UNCHANGED <<lane, lastMove>>
         ELSE /\ lane' = moveLaneNext(lane, dir)
              /\ lastMove' = [dir |-> dir, from |-> lane,
                               sound |-> moveSound(lane, moveLaneNext(lane, dir))]
    /\ UNCHANGED <<gameState, summary, loadingSummary, objects, pending,
                   nextId, frames, delta, session, summaryGen>>

----------------------------------------------------------------------------
\* SceneController: the game loop

\* the early return of the loop with the isPlaying test left out
frozenOnlyGameOver(gs) == gs.isGameOver

\* the early return of the loop
frozen(gs) == ~gs.isPlaying \/ gs.isGameOver

\* the distance without SPEED_MULTIPLIER
moveDistanceUnscaled(speed, d) == (speed * d.num) \div d.den

moveDistance(speed, d) == (speed * d.num * SPEED_MULTIPLIER) \div d.den

\* the score with the sign of the travelled distance flipped
newScoreMinus(score, dist) == score - dist * SCORE_FACTOR

newScore(score, dist) == score + dist * SCORE_FACTOR

\* the collision test without the !obj.hit conjunct
collidesAgain(obj, newZ, ln) ==
    /\ obj.type # "decoration"
    /\ Abs(newZ - PLAYER_Z) < HIT_RADIUS
    /\ obj.lane = ln

\* the collision test of one object at its advanced depth
collides(obj, newZ, ln) ==
    /\ obj.type # "decoration"
    /\ ~obj.hit
    /\ Abs(newZ - PLAYER_Z) < HIT_RADIUS
    /\ obj.lane = ln

\* one object after objects.map
advanced(obj, dist, ln) ==
    [obj EXCEPT !.z = obj.z + dist,
                !.hit = IF collides(obj, obj.z + dist, ln) THEN TRUE ELSE obj.hit]

keep(obj) == obj.z < REMOVE_DISTANCE

updatedObjects(objs, dist, ln) ==
    SelectSeq([i \in DOMAIN objs |-> advanced(objs[i], dist, ln)], keep)

hitIndexes(objs, dist, ln, type) ==
    {i \in DOMAIN objs :
        collides(objs[i], objs[i].z + dist, ln) /\ objs[i].type = type}

\* the obstacle branch skipped when a heart matched in the same frame
hitObstacleUnlessHeart(objs, dist, ln) ==
    /\ hitIndexes(objs, dist, ln, "obstacle") # {}
    /\ hitIndexes(objs, dist, ln, "heart") = {}

hitObstacle(objs, dist, ln) == hitIndexes(objs, dist, ln, "obstacle") # {}

\* the heart branch testing a type name no object carries
collectedHeartWrongType(objs, dist, ln) ==
    hitIndexes(objs, dist, ln, "collectible") # {}

collectedHeart(objs, dist, ln) == hitIndexes(objs, dist, ln, "heart") # {}

\* the label of the last obstacle hit in list order ("" when none)
hitLabel(objs, dist, ln) ==
    LET hits == hitIndexes(objs, dist, ln, "obstacle")
    IN  IF hits = {} THEN ""
        ELSE IF objs[SetMax(hits)].label # "" THEN objs[SetMax(hits)].label
        ELSE "Problem"

\* the hit list with one label appended for every obstacle hit in the frame
hitListAfterEach(hitList, objs, dist, ln) ==
    hitList \o [k \in 1..Cardinality(hitIndexes(objs, dist, ln, "obstacle"))
                  |-> hitLabel(objs, dist, ln)]

\* newHitList = [...gameState.obstaclesHit, hitLabel]
hitListAfter(hitList, objs, dist, ln) ==
    Append(hitList, hitLabel(objs, dist, ln))

furthestZ(objs) ==
    IF Len(objs) > 0 THEN SetMin({objs[i].z : i \in DOMAIN objs}) ELSE 0

\* the spawn check without the gap of 20
shouldSpawnNoGap(objs) == furthestZ(objs) > SPAWN_DISTANCE

\* the spawn check passing at a gap of exactly 20
shouldSpawnAtGap(objs) == furthestZ(objs) >= SPAWN_DISTANCE + SPAWN_GAP

shouldSpawn(objs) == furthestZ(objs) > SPAWN_DISTANCE + SPAWN_GAP

\* the lane drawn as 0, 1 or 2
randomLaneUnshifted(r) == (r * 3) \div 10

randomLane(r) == ((r * 3) \div 10) - 1

randomLabel(r) == ObstacleType[((r * Len(ObstacleType)) \div 10) + 1]

\* the decoration part of a batch: empty, or one decoration
decorations(id, rnd) ==
    {<<>> : r \in {x \in rnd.decoration : ~(x > 3)}}
        \cup {<<[id |-> id, z |-> SPAWN_DISTANCE,
                 lane |-> IF rs > 5 THEN 4 ELSE -4,
                 type |-> "decoration", label |-> "", hit |-> FALSE,
                 decorationType |-> IF rv > 7 THEN "lamp" ELSE "tree"]>> :
              rs \in rnd.side, rv \in rnd.variant,
              r \in {x \in rnd.decoration : x > 3}}

\* the gameplay object of a batch: a heart or a labelled obstacle
gameObjects(id, rl, rnd) ==
    {<<[id |-> id, z |-> SPAWN_DISTANCE, lane |-> randomLane(rl),
        type |-> "heart", label |-> "", hit |-> FALSE,
        decorationType |-> ""]>> : r \in {x \in rnd.heart : x > 6}}
        \cup {<<[id |-> id, z |-> SPAWN_DISTANCE, lane |-> randomLane(rl),
                 type |-> "obstacle", label |-> randomLabel(rb),
                 hit |-> FALSE, decorationType |-> ""]>> :
              rb \in rnd.label, r \in {x \in rnd.heart : ~(x > 6)}}

\* the batches one spawn can push, with the random values drawn from rnd
batches(id, rnd) ==
    UNION {{dec \o obj : obj \in gameObjects(id + Len(dec), rl, rnd)} :
           dec \in decorations(id, rnd), rl \in rnd.lane}

\* the setGameState update of the frame in which an obstacle was hit,
\* followed by handleGameOver's own update
\* the hit update leaving isPlaying set
hitStateStillPlaying(prev, newHitList) ==
    [prev EXCEPT !.obstaclesHit = newHitList, !.isGameOver = TRUE]

\* the hit update without the new hit list
hitStateKeepsList(prev, newHitList) ==
    [prev EXCEPT !.isGameOver = TRUE, !.isPlaying = FALSE]

hitState(prev, newHitList) ==
    [prev EXCEPT !.obstaclesHit = newHitList,
                 !.isGameOver = TRUE,
                 !.isPlaying = FALSE]

\* the running update without the speed increment
runStateFlatSpeed(prev, score, heart) ==
    [prev EXCEPT !.score = score,
                 !.hearts = IF heart THEN prev.hearts + 1 ELSE prev.hearts]

\* the setGameState update of a frame without obstacle hit
runState(prev, score, heart) ==
    [prev EXCEPT !.score = score,
                 !.speed = prev.speed + SPEED_STEP,
                 !.hearts = IF heart THEN prev.hearts + 1 ELSE prev.hearts]

\* the request made with the state of the closure instead of finalState
summaryRequestStale(gen, gs, newHitList) ==
    [gen |-> gen, hearts |-> gs.hearts, obstaclesHit |-> gs.obstaclesHit]

\* onGameOver({...gameState, obstaclesHit: newHitList}): the arguments
\* handleGameOver passes to getGameSummary
summaryRequest(gen, gs, newHitList) ==
    [gen |-> gen, hearts |-> gs.hearts, obstaclesHit |-> newHitList]

\* the frame callback, given the frame's delta, the batches a spawn may
\* push and the number of frames the run is followed for
gameLoop(d, pool, cap) ==
    /\ frames < cap
    /\ frames' = frames + 1
    /\ delta' = d
    /\ IF frozen(gameState)
         THEN UNCHANGED <<gameState, summary, loadingSummary, lane, objects,
                          pending, nextId, session, lastMove,
                          summaryGen>>
         ELSE LET dist == moveDistance(gameState.speed, d)
                  upd == updatedObjects(objects, dist, lane)
                  newHitList ==
                      hitListAfter(gameState.obstaclesHit, objects, dist,
                                   lane)
              IN  /\ \E batch \in (IF shouldSpawn(upd)
                                     THEN pool ELSE {<<>>}) :
                        /\ objects' = upd \o batch
                        /\ nextId' = nextId + Len(batch)
                  /\ IF hitObstacle(objects, dist, lane)
                       THEN /\ gameState' = hitState(gameState, newHitList)
                            /\ loadingSummary' = TRUE
                            /\ pending' = pending \cup
                                 {summaryRequest(session, gameState,
                                                 newHitList)}
                       ELSE /\ gameState' =
                                 runState(gameState,
                                          newScore(gameState.score, dist),
                                          collectedHeart(objects, dist, lane))
                            /\ UNCHANGED <<loadingSummary, pending>>
                  /\ UNCHANGED <<summary, lane, session, lastMove,
                                 summaryGen>>

useFrame(d) == gameLoop(d, batches(nextId, Rand), MaxFrames)

----------------------------------------------------------------------------
Frame == \E d \in Deltas : useFrame(d)

Key == \E dir \in {-1, 1} : handleKeyDown(dir)

Response == \E req \in pending, outcome \in ServiceOutcomes :
                summaryArrives(req, outcome)

Next == startGame \/ Frame \/ Key \/ Response

Spec == Init /\ [][Next]_vars

\* Every call of the narrative service returns or fails: while a request is
\* pending, a response arrives eventually. The player stays in lane 0.
NextLive == startGame \/ Frame \/ Response

SpecLive == Init /\ [][NextLive]_vars /\ WF_vars(Response)

----------------------------------------------------------------------------
\* The frame callback on its whole input domain: any running session state,
\* lane and object list may be handed to it, and it runs once.

UnitDepths == {-120000, 0, 5000}

UnitObjects ==
    {[id |-> 0, z |-> z, lane |-> ln, type |-> t,
      label |-> IF t = "obstacle" THEN "Ego" ELSE "",
      hit |-> h,
      decorationType |-> IF t = "decoration" THEN "tree" ELSE ""] :
     z \in UnitDepths, ln \in {-1, 0}, h \in BOOLEAN,
     t \in {"obstacle", "heart", "decoration"}}

UnitLists ==
    {<<>>}
        \cup {<<[a EXCEPT !.id = 1]>> : a \in UnitObjects}
        \cup {<<[a EXCEPT !.id = 1], [b EXCEPT !.id = 2]>> :
              a \in UnitObjects, b \in UnitObjects}

InitUnit ==
    /\ gameState \in {[StartedGameState EXCEPT !.hearts = h, !.score = s] :
                      h \in {0, 2}, s \in {0, 1500}}
    /\ summary = ""
    /\ loadingSummary = FALSE
    /\ lane \in {-1, 0}
    /\ objects \in UnitLists
    /\ pending = {}
    /\ nextId = 3
    /\ frames = MaxFrames - 1
    /\ delta = [num |-> 0, den |-> 1]
    /\ session = 1
    /\ lastMove = [dir |-> 0, from |-> 0, sound |-> FALSE]
    /\ summaryGen = 0

NextUnit == Frame

SpecUnit == InitUnit /\ [][NextUnit]_vars

----------------------------------------------------------------------------
\* Runs whose frames travel exact distances: the delta of a frame is chosen
\* as dist / (speed * 2), so that speed * delta * 2 is dist.

RECURSIVE Gcd(_, _)
Gcd(a, b) == IF b = 0 THEN a ELSE Gcd(b, a % b)

\* dist / (speed * 2) as a fraction in lowest terms
exactDelta(dist, speed) ==
    LET g == Gcd(speed * SPEED_MULTIPLIER, dist)
    IN  [num |-> dist \div g, den |-> (speed * SPEED_MULTIPLIER) \div g]

ExactDists == {0, 20000, 20001, 130000}

ExactRand ==
    [lane |-> {4}, decoration |-> {0, 8}, side |-> {8}, variant |-> {0},
     heart |-> {0, 8}, label |-> {0}]

ExactFrame ==
    \E dist \in ExactDists :
        gameLoop(exactDelta(dist, gameState.speed),
                 batches(nextId, ExactRand), MaxFrames)

NextExact == startGame \/ ExactFrame

SpecExact == Init /\ [][NextExact]_vars

----------------------------------------------------------------------------
\* Runs whose spawns draw every value of Math.random().

SpawnFrames == 2

SpawnDeltas == {[num |-> 6, den |-> 1]}

FullRand ==
    [lane |-> 0..9, decoration |-> 0..9, side |-> 0..9, variant |-> 0..9,
     heart |-> 0..9, label |-> 0..9]

SpawnFrame ==
    \E d \in SpawnDeltas :
        gameLoop(d, batches(nextId, FullRand), SpawnFrames)

NextSpawn == startGame \/ SpawnFrame

SpecSpawn == Init /\ [][NextSpawn]_vars

----------------------------------------------------------------------------
\* Long runs: frames travel 20.001 or 10, every batch has a decoration and
\* its gameplay object is in the player's lane.

LongFrames == 8

LongDists == {20001, 10000}

LongRand ==
    [lane |-> {4}, decoration |-> {8}, side |-> {8}, variant |-> {0},
     heart |-> {0, 8}, label |-> {6}]

LongFrame ==
    \E dist \in LongDists :
        gameLoop(exactDelta(dist, gameState.speed),
                 batches(nextId, LongRand), LongFrames)

NextLong == startGame \/ LongFrame

SpecLong == Init /\ [][NextLong]_vars

----------------------------------------------------------------------------
\* The run of the 50-frame scenario: a session is started and every frame
\* delivered to it travels exactly 1; lane moves and spawn choices are free.

RunFrames == 50

RunFrame ==
    /\ gameState.isPlaying
    /\ gameLoop(exactDelta(1000, gameState.speed), batches(nextId, Rand),
                RunFrames)

NextRun == startGame \/ RunFrame \/ Key

SpecRun == Init /\ [][NextRun]_vars

----------------------------------------------------------------------------
\* Frames whose delta may be negative: useFrame takes the delta the renderer
\* hands it and nothing in it restricts the sign.

NegDeltas == {[num |-> -1, den |-> 1], [num |-> 0, den |-> 1], [num |-> 6, den |-> 1]}

NegFrame == \E d \in NegDeltas : gameLoop(d, batches(nextId, ExactRand), MaxFrames)

NextNeg == startGame \/ NegFrame

SpecNeg == Init /\ [][NextNeg]_vars

----------------------------------------------------------------------------
\* Sessions from the initial state, and single frames on arbitrary lists of
\* objects not yet hit (two obstacles may sit at the same depth and lane),
\* each followed by a restart.

InitHits ==
    \/ Init
    \/ InitUnit /\ \A i \in DOMAIN objects : ~objects[i].hit

NextHits == startGame \/ Frame

SpecHits == InitHits /\ [][NextHits]_vars

----------------------------------------------------------------------------
\* Runs with a slow frame near the player: an object spawned at -120 is
\* brought to depth -1 and the next frame travels 0, 1 or 2.

JumpDists == {0, 1000, 2000, 119000}

JumpFrame ==
    \E dist \in JumpDists :
        gameLoop(exactDelta(dist, gameState.speed), batches(nextId, ExactRand),
                 MaxFrames)

NextJump == startGame \/ JumpFrame

SpecJump == Init /\ [][NextJump]_vars

----------------------------------------------------------------------------
\* Vocabulary of the properties

Running == gameState.isPlaying /\ ~gameState.isGameOver

FrameStep == frames' = frames + 1

StartStep == session' = session + 1

\* object i of the list before the step is object j of the list after it
SameObject(i, j) == objects'[j].id = objects[i].id

\* object i is a live object of the given type in the player's lane and its
\* depth after the step is within the proximity radius 0.8 of depth 0
HitCondition(i, j, type) ==
    /\ SameObject(i, j)
    /\ objects[i].type = type
    /\ ~objects[i].hit
    /\ objects[i].lane = lane
    /\ objects'[j].z > -800
    /\ objects'[j].z < 800

ObstacleHitInStep ==
    \E i \in DOMAIN objects, j \in DOMAIN objects' :
        HitCondition(i, j, "obstacle")

HeartHitInStep ==
    \E i \in DOMAIN objects, j \in DOMAIN objects' :
        HitCondition(i, j, "heart")

----------------------------------------------------------------------------
MoveStep == lastMove' # lastMove

\* C1: after startGame the summary slot holds the empty string or the
\* response to a request issued by the current session; the response of a
\* request of an earlier session never lands in it.
C1_NoStaleSummary == summary = "" \/ summaryGen = session

\* C2: a restart from GameOver leaves the object list empty, so the first
\* frame of the new run sees no object of the previous run.
C2_RestartClearsWorld ==
    [][(StartStep /\ gameState.isGameOver) => objects' = <<>>]_vars

\* C3: every start, from Idle or from GameOver, yields isPlaying = true,
\* isGameOver = false, score = 0, hearts = 0, speed = 10, obstaclesHit
\* empty and summary empty.
C3_StartResets ==
    [][StartStep =>
         /\ gameState' = [isPlaying |-> TRUE, isGameOver |-> FALSE,
                          score |-> 0, hearts |-> 0, speed |-> 10000,
                          obstaclesHit |-> <<>>]
         /\ summary' = ""]_vars

\* a restarted session (after a run that scored, and ended in GameOver with a
\* request issued) in its reset state
C3_Witness ==
    /\ session = 2
    /\ gameState.isPlaying
    /\ gameState.score = 0
    /\ gameState.speed = 10000
    /\ gameState.obstaclesHit = <<>>
    /\ summary = ""
    /\ loadingSummary

\* C4: a frame callback run while the session is not Running changes
\* neither the session state, the object list, the lane nor the summary
\* slot, spawns nothing and issues no request.
C4_IdleFrameNoOp ==
    [][(FrameStep /\ ~Running) =>
         UNCHANGED <<gameState, objects, lane, nextId, pending, summary,
                     loadingSummary>>]_vars

\* a game-over state whose most recent frame came after the hit (the frame
\* of a hit travels a positive distance)
C4_Witness ==
    /\ gameState.isGameOver
    /\ session = 1
    /\ delta.num = 0
    /\ objects # <<>>

\* C5: a Running frame in which a live obstacle in the player's lane ends
\* within the proximity radius ends the session (isGameOver, not isPlaying),
\* appends that obstacle's label to obstaclesHit and marks it hit.
C5_ObstacleHit ==
    [][\A i \in DOMAIN objects, j \in DOMAIN objects' :
         (FrameStep /\ Running /\ HitCondition(i, j, "obstacle")) =>
            /\ gameState'.isGameOver
            /\ ~gameState'.isPlaying
            /\ gameState'.obstaclesHit =
                 Append(gameState.obstaclesHit, objects[i].label)
            /\ objects'[j].hit]_vars

C5_Witness ==
    /\ gameState.isGameOver
    /\ Len(gameState.obstaclesHit) = 1
    /\ \E i \in DOMAIN objects :
          /\ objects[i].type = "obstacle"
          /\ objects[i].hit
          /\ objects[i].label = gameState.obstaclesHit[1]

\* C6: a Running frame in which a live heart in the player's lane ends
\* within the proximity radius, and no obstacle is hit, raises hearts by
\* exactly 1, marks the heart hit and leaves the session Running.
C6_HeartCollected ==
    [][\A i \in DOMAIN objects, j \in DOMAIN objects' :
         (FrameStep /\ Running /\ HitCondition(i, j, "heart")
            /\ ~ObstacleHitInStep) =>
            /\ gameState'.hearts = gameState.hearts + 1
            /\ objects'[j].hit
            /\ gameState'.isPlaying
            /\ ~gameState'.isGameOver]_vars

C6_Witness ==
    /\ gameState.isPlaying
    /\ gameState.hearts = 1
    /\ \E i \in DOMAIN objects :
          objects[i].type = "heart" /\ objects[i].hit

\* C7: a frame in which an obstacle and a heart both satisfy the hit
\* condition, in either list order, ends the session and leaves hearts
\* unchanged.
C7_CollisionPrecedence ==
    [][(FrameStep /\ Running /\ ObstacleHitInStep /\ HeartHitInStep) =>
         /\ gameState'.isGameOver
         /\ ~gameState'.isPlaying
         /\ gameState'.hearts = gameState.hearts]_vars

\* after the frame: game over, the hit heart listed before the hit obstacle
C7_Witness ==
    /\ gameState.isGameOver
    /\ gameState.hearts = 2
    /\ Len(objects) >= 2
    /\ objects[1].type = "heart" /\ objects[1].hit
    /\ objects[1].z > -800 /\ objects[1].z < 800
    /\ objects[2].type = "obstacle" /\ objects[2].hit
    /\ objects[2].z > -800 /\ objects[2].z < 800
    /\ objects[1].lane = objects[2].lane
    /\ frames = MaxFrames

\* C8: every frame processed while Running, the frame of an obstacle hit
\* included, adds 5 times the distance travelled (speed * delta * 2) to the
\* score.
C8_ScoreEveryFrame ==
    [][(FrameStep /\ Running) =>
         gameState'.score =
            gameState.score
              + 5 * ((gameState.speed * delta'.num * 2) \div delta'.den)]_vars

\* C9: score never decreases in a step taken from a Running state, and in
\* GameOver it changes only through start.
C9_ScoreMonotone ==
    [][/\ Running => gameState'.score >= gameState.score
       /\ (gameState.isGameOver /\ gameState'.score # gameState.score)
             => StartStep]_vars

\* a game over with a positive score, frames run after it and the response
\* delivered
C9_Witness ==
    /\ gameState.isGameOver
    /\ gameState.score > 0
    /\ delta.num = 0
    /\ pending = {}
    /\ summary # ""

\* C10: a frame that starts and ends in Running raises speed by 0.002, and
\* only start lowers speed.
C10_SpeedRamp ==
    [][/\ (FrameStep /\ Running /\ Running') =>
             gameState'.speed = gameState.speed + 2
       /\ gameState'.speed < gameState.speed => StartStep]_vars

C10_Witness ==
    /\ Running
    /\ gameState.speed = 10004
    /\ gameState.hearts = 1

\* C11: the lane is always -1, 0 or 1; a move request made
\* at an extreme lane towards the outside leaves the lane unchanged, every
\* other one moves the lane by exactly one in its direction, and the lane
\* never changes by more than one.
C11_LaneClamped ==
    /\ [](lane \in {-1, 0, 1})
    /\ [][MoveStep =>
             lane' = (IF lane + lastMove'.dir \in {-1, 0, 1}
                        THEN lane + lastMove'.dir ELSE lane)]_vars
    /\ [][lane' # lane => (lane' = lane + 1 \/ lane' = lane - 1)]_vars

\* in the first run, a MoveRight was made from lane 1 and the lane is 1
C11_Witness ==
    /\ session = 1
    /\ gameState.isPlaying
    /\ lastMove.dir = 1
    /\ lastMove.from = 1
    /\ lane = 1

\* the response of a failed narrative-service call arrives
FailureArrives ==
    \E req \in pending : summaryArrives(req, [failed |-> TRUE, text |-> ""])

\* C12: when the narrative-service call fails, the summary becomes the
\* fixed fallback string, the loading flag is cleared and the session state
\* (isGameOver, isPlaying, score, hearts, obstaclesHit, speed) is unchanged.
C12_FailureFallback ==
    [][FailureArrives =>
         /\ summary' = "Love is a journey, not a destination. Try again!"
         /\ loadingSummary' = FALSE
         /\ gameState' = gameState]_vars

C12_Witness ==
    /\ gameState.isGameOver
    /\ gameState.score > 0
    /\ summary = "Love is a journey, not a destination. Try again!"
    /\ ~loadingSummary
    /\ pending = {}
    /\ summaryGen = session

GameOverStep == Running /\ gameState'.isGameOver

\* C13: a step from Running to GameOver issues exactly one narrative
\* request, carrying the hearts count and the hit history (the label just
\* hit included) of the session that ended; no other step issues a request.
C13_OneRequestPerGameOver ==
    [][/\ GameOverStep =>
            /\ pending \subseteq pending'
            /\ Cardinality(pending' \ pending) = 1
            /\ \A req \in pending' \ pending :
                  /\ req.hearts = gameState.hearts
                  /\ req.hearts = gameState'.hearts
                  /\ req.obstaclesHit = gameState'.obstaclesHit
                  /\ Len(req.obstaclesHit) = Len(gameState.obstaclesHit) + 1
       /\ ~(pending' \subseteq pending) => GameOverStep]_vars

\* a run that collected a heart and then hit an obstacle, its request out
C13_Witness ==
    /\ gameState.isGameOver
    /\ gameState.hearts = 1
    /\ session = 1
    /\ pending = {[gen |-> 1, hearts |-> 1,
                   obstaclesHit |-> gameState.obstaclesHit]}
    /\ Len(gameState.obstaclesHit) = 1

ResponseStep == pending' # pending /\ pending' \subseteq pending

\* C14: the arrival of a response changes neither the session state, the
\* object list nor the lane; start is offered in every state that is not
\* Running, a frame is processed in every state, and a frame in a Running
\* state always advances the session, whatever is pending.
C14_ResponseFrame ==
    /\ [][ResponseStep => UNCHANGED <<gameState, objects, lane, nextId>>]_vars
    /\ [][(FrameStep /\ Running) => gameState' # gameState]_vars
    /\ []((ENABLED startGame) <=> (~Running /\ session < MaxSessions))
    /\ []((ENABLED Frame) <=> frames < MaxFrames)

\* the second run, one frame into it, showing the response to the request
\* of the first run
C14_Witness ==
    /\ Running
    /\ session = 2
    /\ gameState.speed = 10002
    /\ summaryGen = 1
    /\ summary = "Love is strong."
    /\ pending = {}

Spawned == nextId' # nextId

\* the objects of the list after a frame that were in the list before it
Survivors == {j \in DOMAIN objects' : objects'[j].id < nextId}

\* the objects of the list after a frame that the frame created
Newcomers == {j \in DOMAIN objects' : objects'[j].id >= nextId}

\* C15: a Running frame spawns a batch exactly when every object left
\* after advancing and pruning is deeper than -100 (or none is left); the
\* batch is created at depth -120, more than 20 units from every other
\* object, and objects of different batches stay more than 20 units apart.
C15_SpawnGap ==
    /\ [][(FrameStep /\ Running) =>
             (Spawned <=> \A j \in Survivors : objects'[j].z > -100000)]_vars
    /\ [][Spawned =>
             /\ \A j \in Newcomers : objects'[j].z = -120000
             /\ \A j \in Survivors : objects'[j].z - (-120000) > 20000]_vars
    /\ [](\A i, j \in DOMAIN objects :
             \/ objects[i].z = objects[j].z
             \/ objects[i].z - objects[j].z > 20000
             \/ objects[j].z - objects[i].z > 20000)

\* a batch exactly 20 units from the spawn boundary, one frame after its
\* creation, and no batch behind it
C15_Witness ==
    /\ Running
    /\ gameState.speed = 10004
    /\ objects # <<>>
    /\ \A i \in DOMAIN objects : objects[i].z = -100000

\* C16: every spawned batch holds exactly one gameplay object (a heart, or
\* an obstacle labelled with one of the five ObstacleType values) at depth
\* -120, in lane -1, 0 or 1 and not hit, and at most one decoration, at the
\* same depth, at offset 4 or -4, of variant tree or lamp.
C16_BatchShape ==
    [][Spawned =>
         LET game == {j \in Newcomers : objects'[j].type # "decoration"}
             decs == {j \in Newcomers : objects'[j].type = "decoration"}
         IN  /\ Cardinality(game) = 1
             /\ Cardinality(decs) <= 1
             /\ \A j \in game :
                   /\ objects'[j].z = -120000
                   /\ objects'[j].lane \in {-1, 0, 1}
                   /\ ~objects'[j].hit
                   /\ \/ objects'[j].type = "heart"
                      \/ /\ objects'[j].type = "obstacle"
                         /\ objects'[j].label \in
                              {"Family Problems", "Toxic Bestie", "Society",
                               "Ego", "Long Distance"}
             /\ \A j \in decs :
                   /\ objects'[j].z = -120000
                   /\ objects'[j].lane \in {4, -4}
                   /\ objects'[j].decorationType \in {"tree", "lamp"}]_vars

\* a fresh batch of a lamp on the left and an "Ego" obstacle in lane 1
C16_Witness ==
    /\ Len(objects) >= 2
    /\ objects[Len(objects) - 1].type = "decoration"
    /\ objects[Len(objects) - 1].decorationType = "lamp"
    /\ objects[Len(objects) - 1].lane = -4
    /\ objects[Len(objects) - 1].z = -120000
    /\ objects[Len(objects)].type = "obstacle"
    /\ objects[Len(objects)].label = "Ego"
    /\ objects[Len(objects)].lane = 1
    /\ objects[Len(objects)].z = -120000

\* the distance travelled by the frame of a step: speed * delta * 2
Travelled == (gameState.speed * delta'.num * 2) \div delta'.den

\* C17: a Running frame removes exactly the objects whose advanced depth
\* exceeds 10; every other object, one at depth exactly 10 included, stays,
\* advanced, with its other fields (but hit) as they were and in the same
\* relative order.
C17_PruneBeyondNear ==
    [][(FrameStep /\ Running) =>
         LET kept == {i \in DOMAIN objects :
                        objects[i].z + Travelled <= 10000}
         IN  /\ \A i \in DOMAIN objects :
                   i \in kept <=> \E j \in Survivors : SameObject(i, j)
             /\ \A i \in kept, j \in Survivors :
                   SameObject(i, j) =>
                     /\ objects'[j].z = objects[i].z + Travelled
                     /\ objects'[j] =
                          [objects[i] EXCEPT !.z = objects'[j].z,
                                             !.hit = objects'[j].hit]
             /\ \A i1, i2 \in kept, j1, j2 \in Survivors :
                   (SameObject(i1, j1) /\ SameObject(i2, j2) /\ i1 < i2)
                      => j1 < j2]_vars

GameplayObjects == {i \in DOMAIN objects : objects[i].type # "decoration"}

DecorationObjects == {i \in DOMAIN objects : objects[i].type = "decoration"}

\* C18: the object list never holds more than 7 gameplay objects and 7
\* decorations.
C18_WorldBounded ==
    /\ Cardinality(GameplayObjects) <= 7
    /\ Cardinality(DecorationObjects) <= 7

\* seven batches alive at once, the oldest at the player
C18_Witness ==
    /\ Cardinality(GameplayObjects) = 7
    /\ Cardinality(DecorationObjects) = 7
    /\ objects[1].z > 0

\* C19: a session started from the initial state and run for 50 frames of
\* distance 1 each is Running after every one of them, with hearts 0 and
\* obstaclesHit empty, and after the 50th its score is exactly 250.
C19_FiftyFrames ==
    (session >= 1 /\ frames <= 50) =>
        /\ Running
        /\ gameState.hearts = 0
        /\ gameState.obstaclesHit = <<>>
        /\ frames = 50 => gameState.score = 250000

\* after the 50th frame: three batches spawned, the player moved to lane 1
C19_Witness ==
    /\ frames = 50
    /\ gameState.score = 250000
    /\ gameState.speed = 10100
    /\ Cardinality(GameplayObjects) = 3
    /\ lane = 1

\* C20: a negative frame distance is never applied: no frame decreases the
\* score or the depth of an object that it keeps.
C20_NegativeDeltaClamped ==
    [][FrameStep =>
          /\ gameState'.score >= gameState.score
          /\ \A i \in DOMAIN objects, j \in DOMAIN objects' :
                SameObject(i, j) => objects'[j].z >= objects[i].z]_vars

\* C21: a move request emits the move feedback signal if and only if the
\* lane after it differs from the lane before it; a request clamped at an
\* extreme lane emits none.
C21_MoveSignal ==
    [][MoveStep =>
          /\ lastMove'.sound <=> lane' # lane
          /\ (lane + lastMove'.dir \notin {-1, 0, 1}) => ~lastMove'.sound]_vars

\* a MoveLeft was made from lane -1: the lane stayed -1 and no signal
C21_Witness ==
    /\ gameState.isPlaying
    /\ lastMove.dir = -1
    /\ lastMove.from = -1
    /\ ~lastMove.sound
    /\ lane = -1

\* C22: an object's hit flag, once true, stays true while the object is in
\* the list; a frame ends the game or counts a heart only when an object
\* that was not yet hit meets the hit condition, in the first session and in
\* later ones; a decoration never has its hit flag set.
C22_ConsumedOnce ==
    /\ [](\A i \in DOMAIN objects :
             objects[i].type = "decoration" => ~objects[i].hit)
    /\ [][\A i \in DOMAIN objects, j \in DOMAIN objects' :
             (SameObject(i, j) /\ objects[i].hit) => objects'[j].hit]_vars
    /\ [][(FrameStep /\ gameState'.isGameOver /\ ~gameState.isGameOver)
             => ObstacleHitInStep]_vars
    /\ [][(FrameStep /\ gameState'.hearts # gameState.hearts)
             => HeartHitInStep]_vars

\* the second session has run a frame while the obstacle that ended the
\* first one, already hit, was within the radius in the player's lane
C22_Witness ==
    /\ session = 2
    /\ Running
    /\ gameState.speed = 10002
    /\ \E i \in DOMAIN objects :
          /\ objects[i].type = "obstacle"
          /\ objects[i].hit
          /\ objects[i].lane = lane
          /\ Abs(objects[i].z) < HIT_RADIUS

\* C23: isPlaying and isGameOver are never both true, so the session is in
\* exactly one of Idle, Running and GameOver; once a session has been
\* started the state is never Idle again; GameOver is left only by
\* startGame.
C23_SessionStates ==
    /\ [](~(gameState.isPlaying /\ gameState.isGameOver))
    /\ [](session >= 1 => (gameState.isPlaying \/ gameState.isGameOver))
    /\ [][(gameState.isGameOver /\ ~gameState'.isGameOver) => StartStep]_vars

\* the second session has ended in GameOver and its response has arrived
C23_Witness ==
    /\ session = 2
    /\ gameState.isGameOver
    /\ ~gameState.isPlaying
    /\ summaryGen = 2
    /\ ~loadingSummary

\* C24: obstaclesHit is empty in Idle and in Running and holds exactly one
\* label in GameOver; a frame appends at most one label, also when several
\* obstacles meet the hit condition in it; startGame empties it.
C24_OneLabel ==
    /\ [](~gameState.isGameOver => gameState.obstaclesHit = <<>>)
    /\ [](gameState.isGameOver => Len(gameState.obstaclesHit) = 1)
    /\ [][FrameStep =>
             Len(gameState'.obstaclesHit) <= Len(gameState.obstaclesHit) + 1]_vars
    /\ [][StartStep => gameState'.obstaclesHit = <<>>]_vars

\* GameOver with one label after a frame in which two obstacles were hit
C24_Witness ==
    /\ gameState.isGameOver
    /\ gameState.obstaclesHit = <<"Ego">>
    /\ Len(objects) >= 2
    /\ \A i \in {1, 2} :
          /\ objects[i].type = "obstacle"
          /\ objects[i].hit
          /\ objects[i].lane = lane

\* C25: an obstacle not yet hit, in the player's lane, does not go in one
\* step from a depth of at most -0.8 to a depth of at least 0.8 with the
\* player staying in that lane, unless the step ends the session in
\* GameOver.
C25_NoTunnelling ==
    [][\A i \in DOMAIN objects, j \in DOMAIN objects' :
          (/\ SameObject(i, j)
           /\ objects[i].type = "obstacle"
           /\ ~objects[i].hit
           /\ objects[i].lane = lane
           /\ lane' = lane
           /\ objects[i].z <= -800
           /\ objects'[j].z >= 800) => gameState'.isGameOver]_vars

\* C26: provided every request to the narrative service gets its response,
\* a GameOver state is followed, unless startGame comes first, by a state
\* with loadingSummary false and a non-empty summary; and a GameOver state
\* with no request pending has loadingSummary false and a non-empty summary.
C26_SummaryArrives ==
    /\ [](gameState.isGameOver /\ pending = {}
             => ~loadingSummary /\ summary # "")
    /\ gameState.isGameOver
          ~> (~gameState.isGameOver \/ (~loadingSummary /\ summary # ""))

\* GameOver, the service returned an empty text and nothing is pending
C26_Witness ==
    /\ gameState.isGameOver
    /\ pending = {}
    /\ ~loadingSummary
    /\ summary = EmptyFallback

====
